---- MODULE Spec2Model ----
(***************************************************************************)
(* A model of three parts of beets-frontend-v2:                            *)
(*   - the alert registry            (src/composables/useAlerts.ts)        *)
(*   - the backend GraphQL client    (beethovenx.service.ts)               *)
(*   - the user-pools query          (queries/useUserPoolsQuery.ts)        *)
(* Each part has its own specification; the variables of the other parts   *)
(* stay at their initial value.                                            *)
(***************************************************************************)
EXTENDS Integers, Sequences, FiniteSets, TLC

VARIABLES
    alertsState,   \* useAlerts.ts: the registry, a keyed object in insertion order
    lastOp,        \* the last registry operation that ran (history)
    svcPc,         \* BeethovenxService: where the request in progress stands
    svcCall,       \* the request method called and its arguments
    svcResp,       \* what the transport answered
    svcLogged,     \* the number of console.error calls of this request
    svcOutcome,    \* what the method returned or threw
    isWalletReady,      \* useWeb3().isWalletReady
    account,            \* useWeb3().account: "null" or the user's address
    loadingTokenLists,  \* useTokenLists().loadingTokenLists
    optEnabled,         \* options.enabled as the caller passed it, or "unset"
    mounted,            \* useUserPoolsQuery has been called
    sgShares,           \* the subgraph's pool shares of the user
    sgPools,            \* the subgraph's pools
    pc,                 \* where the execution of queryFn stands
    poolShares,         \* queryFn: const poolShares
    pools,              \* queryFn: const pools, the pool objects
    poolRefs,           \* queryFn: the elements of the array pools, each the
                        \* position in pools of the object it refers to
    userPools,          \* queryFn: const userPools, as positions in pools
    loopI,              \* queryFn: the loop counter i
    tokens,             \* queryFn: const tokens
    result,             \* what queryFn returned
    loadState,          \* the price loading that injectTokens sets off
    dynamicDataLoading, \* useTokens().dynamicDataLoading
    hist                \* history: what has happened so far

alertVars == <<alertsState, lastOp>>
svcVars == <<svcPc, svcCall, svcResp, svcLogged, svcOutcome>>
walletVars == <<isWalletReady, account, loadingTokenLists>>
fnVars == <<pc, poolShares, pools, poolRefs, userPools, loopI, tokens, result>>
loadVars == <<loadState, dynamicDataLoading>>
queryVars == <<isWalletReady, account, loadingTokenLists, optEnabled, mounted,
               sgShares, sgPools, pc, poolShares, pools, poolRefs, userPools,
               loopI, tokens, result, loadState, dynamicDataLoading, hist>>
vars == <<alertsState, lastOp, svcPc, svcCall, svcResp, svcLogged, svcOutcome,
          isWalletReady, account, loadingTokenLists, optEnabled, mounted,
          sgShares, sgPools, pc, poolShares, pools, poolRefs, userPools,
          loopI, tokens, result, loadState, dynamicDataLoading, hist>>

(***************************************************************************)
(* Bounds of the model.                                                    *)
(***************************************************************************)
\* the number of alert ids besides the seeded 'v2-beta'
NumAlertIds == 2
\* the number of distinct token addresses a price request may name
NumTokens == 2
\* the number of distinct timestamps a price series may hold
NumTimestamps == 2
\* the number of Linear pools the subgraph holds
NumLinear == 2
\* the longest token list of the pool that is decorated
MaxTokensList == 3
\* the largest totalLiquidity, totalShares and share balance
MaxAmount == 3
\* the number of executions of queryFn a behaviour may hold
MaxRuns == 2
\* the decimals BigNumber keeps in a quotient (20 in the library: the model
\* keeps fewer so that rounded quotients stay small)
DecimalPlaces == 2

(***************************************************************************)
(* JavaScript objects are records; an optional field that is absent is a   *)
(* key missing from the record's domain.                                   *)
(***************************************************************************)
Has(obj, k) == k \in DOMAIN obj

\* {...obj, k: v}
SpreadWith(obj, k, v) ==
    [x \in (DOMAIN obj) \cup {k} |-> IF x = k THEN v ELSE obj[x]]

\* the value null / undefined of an object-typed expression
Null == [isNull |-> TRUE]

(***************************************************************************)
(*                         useAlerts.ts                                    *)
(***************************************************************************)
\* enum AlertPriority
LOW == 0
MEDIUM == 1
HIGH == 2

AlertPriority == {LOW, MEDIUM, HIGH}

IdNames == <<"a", "b", "c", "d">>

AlertIds == {"v2-beta"} \cup {IdNames[i] : i \in 1..NumAlertIds}

\* the alert seeded in alertsState
SeededAlert ==
    [id |-> "v2-beta", priority |-> LOW, label |-> "beta", type |-> "feature",
     actionLabel |-> "Check it out", action |-> "redirect",
     actionOnClick |-> FALSE, persistent |-> FALSE]

\* The Alert values callers pass to addAlert: id, label and type are required,
\* priority is optional (so are the fields only the seeded alert carries).
AlertInputs ==
    LET base == {[id |-> i, label |-> "l", type |-> "info"] : i \in AlertIds}
    IN  base \cup {SpreadWith(b, "priority", p) : b \in base, p \in AlertPriority}

\* alertsState is a Record<string, Alert>: its keys in insertion order, each
\* once. It is modelled as the sequence of its values; an entry's key is its id.
Keys(state) == {state[i].id : i \in 1..Len(state)}

IndexOfKey(state, id) == CHOOSE i \in 1..Len(state) : state[i].id = id

\* a variant of SetKey that merges the new entry into the old one
\* (Object.assign(old, entry)) instead of replacing it
SetKeyMerging(state, id, entry) ==
    IF id \in Keys(state)
    THEN LET old == state[IndexOfKey(state, id)]
         IN  [state EXCEPT ![IndexOfKey(state, id)] =
                 [x \in (DOMAIN old) \cup (DOMAIN entry) |->
                     IF x \in DOMAIN entry THEN entry[x] ELSE old[x]]]
    ELSE Append(state, entry)

\* alertsState.value[id] = entry: an existing key keeps its place, a new one
\* goes last
SetKey(state, id, entry) ==
    IF id \in Keys(state)
    THEN [state EXCEPT ![IndexOfKey(state, id)] = entry]
    ELSE Append(state, entry)

\* a variant of DeleteKey that also evicts the alerts marked persistent: false
DeleteKeyEvicting(state, id) ==
    SelectSeq(state, LAMBDA e :
        e.id # id /\ ~(Has(e, "persistent") /\ e.persistent = FALSE))

\* delete alertsState.value[id]: a missing key is no error
DeleteKey(state, id) == SelectSeq(state, LAMBDA e : e.id # id)

\* a variant of InsertDesc that sorts in ascending order (orderBy 'asc')
RECURSIVE InsertAsc(_, _)
InsertAsc(sorted, e) ==
    IF sorted = <<>> THEN <<e>>
    ELSE IF Head(sorted).priority <= e.priority
         THEN <<Head(sorted)>> \o InsertAsc(Tail(sorted), e)
         ELSE <<e>> \o sorted

\* lodash orderBy(collection, 'priority', 'desc'): a stable sort of the
\* collection's values, larger priorities first
RECURSIVE InsertDesc(_, _)
InsertDesc(sorted, e) ==
    IF sorted = <<>> THEN <<e>>
    ELSE IF Head(sorted).priority >= e.priority
         THEN <<Head(sorted)>> \o InsertDesc(Tail(sorted), e)
         ELSE <<e>> \o sorted

RECURSIVE OrderByPriorityDesc(_)
OrderByPriorityDesc(state) ==
    IF state = <<>> THEN <<>>
    ELSE InsertDesc(OrderByPriorityDesc(SubSeq(state, 1, Len(state) - 1)),
                    state[Len(state)])

\* const alerts = computed(...)
alerts == OrderByPriorityDesc(alertsState)

\* const currentAlert = computed(...)
currentAlert == IF Len(alerts) > 0 THEN alerts[1] ELSE Null

\* the entry addAlert stores: {...alert, priority: alert.priority ?? LOW}
StoredAlert(alert) ==
    SpreadWith(alert, "priority",
               IF Has(alert, "priority") THEN alert.priority ELSE LOW)

AddAlert(alert) ==
    /\ UNCHANGED <<svcVars, queryVars>>
    /\ alertsState' = SetKey(alertsState, alert.id, StoredAlert(alert))
    /\ lastOp' = [op |-> "addAlert", id |-> alert.id,
                  existed |-> alert.id \in Keys(alertsState)]

RemoveAlert(alertId) ==
    /\ UNCHANGED <<svcVars, queryVars>>
    /\ alertsState' = DeleteKey(alertsState, alertId)
    /\ lastOp' = [op |-> "removeAlert", id |-> alertId,
                  existed |-> alertId \in Keys(alertsState)]

RemoveAllAlerts ==
    /\ UNCHANGED <<svcVars, queryVars>>
    /\ alertsState' = <<>>
    /\ lastOp' = [op |-> "removeAllAlerts", id |-> "", existed |-> FALSE]

\* a component reads alerts and currentAlert: the computed values are built
\* from alertsState and leave it alone
ReadAlerts ==
    /\ UNCHANGED <<svcVars, queryVars>>
    /\ alerts = alerts
    /\ currentAlert = currentAlert
    /\ alertsState' = alertsState
    /\ lastOp' = [op |-> "read", id |-> "", existed |-> FALSE]

AlertsInit ==
    /\ alertsState = <<SeededAlert>>
    /\ lastOp = [op |-> "init", id |-> "", existed |-> FALSE]

AlertsAddStep == \E alert \in AlertInputs : AddAlert(alert)

AlertsRemoveStep == \E alertId \in AlertIds : RemoveAlert(alertId)

AlertsNext ==
    \/ AlertsAddStep
    \/ AlertsRemoveStep
    \/ RemoveAllAlerts
    \/ ReadAlerts


(***************************************************************************)
(* Addresses. An address string is its 20 bytes (h) and the letter case it *)
(* is written in: all lower case, or the mixed case of its checksum.       *)
(***************************************************************************)
Cases == {"lower", "checksum"}

Addr(h, c) == [h |-> h, c |-> c]

\* String.prototype.toLowerCase on an address
ToLowerCase(a) == [a EXCEPT !.c = "lower"]

\* getAddress of @ethersproject/address: the checksum form of a well-formed
\* address
GetAddress(a) == [a EXCEPT !.c = "checksum"]

(***************************************************************************)
(*                      beethovenx.service.ts                              *)
(***************************************************************************)
\* the request methods that post their query through this.get
GetMethods ==
    {"getUserPortfolio", "getTokenPrices", "getHistoricalTokenPrices",
     "createLge", "getLge", "getLges", "isAddressMultisigWallet",
     "getFbeetsApr", "getProtocolData", "getPoolSnapshots",
     "getAverageBlockTime", "getBeetsFarms", "getUserDataForFarm",
     "getUserDataForAllFarms"}

\* getBeethovenxConfig calls axios.get itself
Methods == GetMethods \cup {"getBeethovenxConfig"}

\* What the transport can answer:
\*   reject        the HTTP call fails (network error, error status)
\*   noEnvelope    the HTTP body is not an object with a data key
\*   nullData      { data: null }, as sent along with GraphQL errors
\*   missingField  { data: {} }: the expected field is not there
\*   full          { data: { <field>: ... } } of the expected shape
TransportKinds == {"reject", "noEnvelope", "nullData", "missingField", "full"}

Timestamps == 1..NumTimestamps

\* the prices the backend may report at a timestamp: a price, and at the
\* first timestamp also the price 0
PricesAt(n) == IF n = 1 THEN {0, 7} ELSE {7}

\* a price series of one token: its address as the backend writes it (lower
\* case) and a price at some of the timestamps, in ascending time
RECURSIVE SeriesOver(_)
SeriesOver(n) ==
    IF n = 0 THEN {<<>>}
    ELSE LET shorter == SeriesOver(n - 1)
         IN  shorter \cup
             {Append(s, [timestamp |-> n, price |-> p]) : s \in shorter, p \in PricesAt(n)}

PriceSeries == SeriesOver(NumTimestamps)

\* the requested addresses: one to NumTokens distinct tokens, in either case
RECURSIVE AddressLists(_)
AddressLists(n) ==
    IF n = 0 THEN {<<>>}
    ELSE LET shorter == AddressLists(n - 1)
         IN  shorter \cup
             {Append(l, Addr(h, c)) : l \in {x \in shorter : Len(x) = n - 1},
                                      h \in 1..NumTokens, c \in Cases}

Distinct(l) == \A i, j \in 1..Len(l) : i # j => l[i].h # l[j].h

RequestedAddresses ==
    {l \in AddressLists(NumTokens) : Len(l) >= 1 /\ Distinct(l)}

\* tokenPriceGetHistoricalPrices answers with a series for some of the
\* requested tokens, in the order they were requested
RECURSIVE HistoricalAnswers(_)
HistoricalAnswers(lowered) ==
    IF lowered = <<>> THEN {<<>>}
    ELSE LET rest == HistoricalAnswers(Tail(lowered))
         IN  rest \cup
             {<<[address |-> Head(lowered), prices |-> s]>> \o r :
                  s \in PriceSeries, r \in rest}

LowerCaseAddresses(addresses) ==
    [i \in 1..Len(addresses) |-> ToLowerCase(addresses[i])]

\* keyBy(tokenPrices, 'address')[address]: the last element with that address
HasKey(tokenPrices, address) ==
    \E i \in 1..Len(tokenPrices) : tokenPrices[i].address = address

KeyBy(tokenPrices, address) ==
    LET is == {i \in 1..Len(tokenPrices) : tokenPrices[i].address = address}
    IN  tokenPrices[CHOOSE i \in is : \A j \in is : j <= i]

\* prices.find(price => price.timestamp === timestamp)?.price || 0
PriceAt(prices, timestamp) ==
    LET is == {i \in 1..Len(prices) : prices[i].timestamp = timestamp}
    IN  IF is = {} THEN 0
        ELSE prices[CHOOSE i \in is : \A j \in is : i <= j].price

\* tokenPrices[0]?.prices.map(price => price.timestamp) || []
FirstTimestamps(tokenPrices) ==
    IF Len(tokenPrices) = 0 THEN {}
    ELSE {tokenPrices[1].prices[i].timestamp : i \in 1..Len(tokenPrices[1].prices)}

\* the loop of getHistoricalTokenPrices reads tokenPricesMap[address].prices:
\* a TypeError when the map has no such key
HistoricalThrows(addresses, tokenPrices) ==
    /\ FirstTimestamps(tokenPrices) # {}
    /\ \E i \in 1..Len(addresses) :
          ~HasKey(tokenPrices, LowerCaseAddresses(addresses)[i])

HistoricalPrices(addresses, tokenPrices) ==
    [t \in FirstTimestamps(tokenPrices) |->
        [i \in 1..Len(addresses) |->
            PriceAt(KeyBy(tokenPrices, LowerCaseAddresses(addresses)[i]).prices, t)]]

NoRows == <<>>

Outcome(kind, shape, rows) == [kind |-> kind, shape |-> shape, rows |-> rows]

\* a request method is called
SvcCall(method, addresses) ==
    /\ svcPc = "idle"
    /\ svcPc' = IF method = "createLge" THEN "signing" ELSE "posting"
    /\ svcCall' = [method |-> method, addresses |-> addresses]
    /\ svcResp' = [kind |-> "pending", tokenPrices |-> <<>>]
    /\ svcLogged' = 0
    /\ svcOutcome' = Outcome("none", "none", NoRows)
    /\ UNCHANGED <<alertVars, queryVars>>

\* createLge first asks the wallet for a signature, outside this.get
SvcSign(signed) ==
    /\ svcPc = "signing"
    /\ IF signed
       THEN svcPc' = "posting" /\ UNCHANGED svcOutcome
       ELSE /\ svcPc' = "done"
            /\ svcOutcome' = Outcome("throw", "signError", NoRows)
    /\ UNCHANGED <<svcCall, svcResp, svcLogged>>
    /\ UNCHANGED <<alertVars, queryVars>>

\* the methods that read a field of the response object (response.lge)
FieldReaders == {"getLge", "getLges", "isAddressMultisigWallet"}

\* the methods that destructure the response and return the field as it is
Destructurers ==
    {"getProtocolData", "getPoolSnapshots", "getAverageBlockTime",
     "getBeetsFarms", "getUserDataForAllFarms"}

\* what each method does with the value this.get returned
AfterGet(method, addresses, resp) ==
    CASE method = "getTokenPrices" ->
            \* if (!response) return {}; then for (...of response.tokenPrices)
            CASE resp.kind = "nullData" -> Outcome("return", "empty", NoRows)
              [] resp.kind = "missingField" -> Outcome("throw", "TypeError", NoRows)
              [] OTHER -> Outcome("return", "typed", NoRows)
      [] method = "getHistoricalTokenPrices" ->
            CASE resp.kind \in {"nullData", "missingField"} ->
                    Outcome("throw", "TypeError", NoRows)
              [] OTHER ->
                    IF HistoricalThrows(addresses, resp.tokenPrices)
                    THEN Outcome("throw", "TypeError", NoRows)
                    ELSE Outcome("return", "typed",
                                 HistoricalPrices(addresses, resp.tokenPrices))
      [] method = "createLge" ->
            \* return this.get(...)
            CASE resp.kind = "nullData" -> Outcome("return", "null", NoRows)
              [] resp.kind = "missingField" -> Outcome("return", "undefined", NoRows)
              [] OTHER -> Outcome("return", "typed", NoRows)
      [] method = "getUserDataForFarm" ->
            \* the field may be null: a record of zeros stands in for it
            CASE resp.kind = "nullData" -> Outcome("throw", "TypeError", NoRows)
              [] resp.kind = "missingField" -> Outcome("return", "default", NoRows)
              [] OTHER -> Outcome("return", "typed", NoRows)
      [] method \in {"getUserPortfolio", "getFbeetsApr"} ->
            \* a property of the field is read
            CASE resp.kind \in {"nullData", "missingField"} ->
                    Outcome("throw", "TypeError", NoRows)
              [] OTHER -> Outcome("return", "typed", NoRows)
      [] method \in FieldReaders \cup Destructurers ->
            CASE resp.kind = "nullData" -> Outcome("throw", "TypeError", NoRows)
              [] resp.kind = "missingField" -> Outcome("return", "undefined", NoRows)
              [] OTHER -> Outcome("return", "typed", NoRows)

\* a variant of get whose catch block logs and does not re-throw: the method
\* goes on with undefined
GetSwallowing(resp) ==
    /\ svcPc = "posting"
    /\ svcCall.method \in GetMethods
    /\ svcResp' = resp
    /\ IF resp.kind \in {"reject", "noEnvelope"}
       THEN /\ svcLogged' = svcLogged + 1
            /\ svcPc' = "done"
            /\ svcOutcome' = AfterGet(svcCall.method, svcCall.addresses,
                                      [resp EXCEPT !.kind = "nullData"])
       ELSE /\ svcPc' = "mapping"
            /\ UNCHANGED <<svcLogged, svcOutcome>>
    /\ UNCHANGED svcCall
    /\ UNCHANGED <<alertVars, queryVars>>

\* private async get<T>: the POST; a rejection, or a body that cannot be
\* destructured as { data: { data } }, is caught, logged and thrown again;
\* otherwise data.data is returned whatever it holds
Get(resp) ==
    /\ svcPc = "posting"
    /\ svcCall.method \in GetMethods
    /\ svcResp' = resp
    /\ IF resp.kind \in {"reject", "noEnvelope"}
       THEN /\ svcLogged' = svcLogged + 1
            /\ svcPc' = "done"
            /\ svcOutcome' = Outcome("throw",
                   IF resp.kind = "reject" THEN "transportError" ELSE "TypeError",
                   NoRows)
       ELSE /\ svcPc' = "mapping"
            /\ UNCHANGED <<svcLogged, svcOutcome>>
    /\ UNCHANGED svcCall
    /\ UNCHANGED <<alertVars, queryVars>>

\* getBeethovenxConfig: axios.get and data.result, with no try/catch
GetConfig(resp) ==
    /\ svcPc = "posting"
    /\ svcCall.method = "getBeethovenxConfig"
    /\ svcResp' = resp
    /\ svcPc' = "done"
    /\ svcOutcome' =
          CASE resp.kind = "reject" -> Outcome("throw", "transportError", NoRows)
            [] resp.kind = "noEnvelope" -> Outcome("throw", "TypeError", NoRows)
            [] resp.kind \in {"nullData", "missingField"} ->
                  Outcome("return", "undefined", NoRows)
            [] OTHER -> Outcome("return", "typed", NoRows)
    /\ UNCHANGED <<svcCall, svcLogged>>
    /\ UNCHANGED <<alertVars, queryVars>>

\* the rest of the method, once this.get has returned
SvcMap ==
    /\ svcPc = "mapping"
    /\ svcPc' = "done"
    /\ svcOutcome' = AfterGet(svcCall.method, svcCall.addresses, svcResp)
    /\ UNCHANGED <<svcCall, svcResp, svcLogged>>
    /\ UNCHANGED <<alertVars, queryVars>>

\* the caller has its answer; the service is ready for the next request
SvcReset ==
    /\ svcPc = "done"
    /\ svcPc' = "idle"
    /\ svcCall' = [method |-> "none", addresses |-> <<>>]
    /\ svcResp' = [kind |-> "pending", tokenPrices |-> <<>>]
    /\ svcLogged' = 0
    /\ svcOutcome' = Outcome("none", "none", NoRows)
    /\ UNCHANGED <<alertVars, queryVars>>

SvcInit ==
    /\ svcPc = "idle"
    /\ svcCall = [method |-> "none", addresses |-> <<>>]
    /\ svcResp = [kind |-> "pending", tokenPrices |-> <<>>]
    /\ svcLogged = 0
    /\ svcOutcome = Outcome("none", "none", NoRows)

\* the answers the transport can give to the request in progress
Answers ==
    {[kind |-> k, tokenPrices |-> <<>>] : k \in TransportKinds \ {"full"}}
    \cup
    IF svcCall.method = "getHistoricalTokenPrices"
    THEN {[kind |-> "full", tokenPrices |-> tp] :
             tp \in HistoricalAnswers(LowerCaseAddresses(svcCall.addresses))}
    ELSE {[kind |-> "full", tokenPrices |-> <<>>]}

SvcCallStep ==
    \/ \E method \in Methods \ {"getHistoricalTokenPrices"} : SvcCall(method, <<>>)
    \/ \E addresses \in RequestedAddresses :
          SvcCall("getHistoricalTokenPrices", addresses)

SvcSignStep == \E signed \in BOOLEAN : SvcSign(signed)

SvcGetStep == svcPc = "posting" /\ \E resp \in Answers : Get(resp)

SvcGetConfigStep == svcPc = "posting" /\ \E resp \in Answers : GetConfig(resp)

SvcNext ==
    \/ SvcCallStep
    \/ SvcSignStep
    \/ SvcGetStep
    \/ SvcGetConfigStep
    \/ SvcMap
    \/ SvcReset


(***************************************************************************)
(*                       useUserPoolsQuery.ts                              *)
(***************************************************************************)
EmptyMap == [x \in {} |-> x]

\* Array.prototype.indexOf, counting from 0, -1 when there is no such element
IndexOf(list, x) ==
    LET is == {k \in 1..Len(list) : list[k] = x}
    IN  IF is = {} THEN -1
        ELSE (CHOOSE k \in is : \A j \in is : k <= j) - 1

\* array[index] = value on a JavaScript array: any index, -1 included, becomes
\* a property of the array; only those from 0 on are elements
SetIndex(array, index, value) ==
    [k \in (DOMAIN array) \cup {index} |-> IF k = index THEN value ELSE array[k]]

\* a pool's id starts with the pool's address: h names both
PoolH(id) == <<"pool", id>>

\* balancerSubgraphService.pools.addressFor(pool.id)
AddressFor(id) == Addr(PoolH(id), "checksum")

\* isStablePhantom(pool.poolType)
IsStablePhantom(poolType) == poolType = "StablePhantom"

\* removePreMintedBPT: the token list without the elements that are, as
\* strings, the lower-cased pool address
RemovePreMintedBPT(pool) ==
    LET poolAddress == AddressFor(pool.id)
    IN  [pool EXCEPT !.tokensList =
            SelectSeq(@, LAMBDA address : address # ToLowerCase(poolAddress))]

\* pools.filter(pool => pool.poolType === 'Linear')
LinearPoolsOf(fetched) == SelectSeq(fetched, LAMBDA q : q.poolType = "Linear")

\* a variant of InjectWrapped that records the main token of the linear pool
InjectMain(wrappedTokens, tokensList, linearPool) ==
    SetIndex(wrappedTokens,
             IndexOf(tokensList, ToLowerCase(linearPool.address)),
             GetAddress(linearPool.tokensList[linearPool.mainIndex + 1]))

\* one round of the forEach of getLinearPoolAttrs on pool.wrappedTokens
InjectWrapped(wrappedTokens, tokensList, linearPool) ==
    SetIndex(wrappedTokens,
             IndexOf(tokensList, ToLowerCase(linearPool.address)),
             GetAddress(linearPool.tokensList[linearPool.wrappedIndex + 1]))

RECURSIVE WrappedTokensAfter(_, _, _)
WrappedTokensAfter(wrappedTokens, tokensList, linearPools) ==
    IF linearPools = <<>> THEN wrappedTokens
    ELSE WrappedTokensAfter(
             InjectWrapped(wrappedTokens, tokensList, Head(linearPools)),
             tokensList, Tail(linearPools))

\* the tokens of one linear pool other than the pool's own, keyed by
\* checksum address, put into the map
RECURSIVE PutTokens(_, _, _)
PutTokens(map, poolTokens, linearPool) ==
    IF poolTokens = <<>> THEN map
    ELSE LET token == Head(poolTokens)
             address == GetAddress(token.address)
             next == IF token.address # linearPool.address
                     THEN SetIndex(map, address, [token EXCEPT !.address = address])
                     ELSE map
         IN  PutTokens(next, Tail(poolTokens), linearPool)

RECURSIVE LinearPoolTokensMap(_, _)
LinearPoolTokensMap(map, linearPools) ==
    IF linearPools = <<>> THEN map
    ELSE LinearPoolTokensMap(
             PutTokens(map, Head(linearPools).tokens, Head(linearPools)),
             Tail(linearPools))

\* linearPools.reduce((map, linearPool) => ..., {})
RECURSIVE LinearPoolToMainTokenMap(_, _)
LinearPoolToMainTokenMap(map, linearPools) ==
    IF linearPools = <<>> THEN map
    ELSE LET lp == Head(linearPools)
         IN  LinearPoolToMainTokenMap(
                 SetIndex(map, lp.address, lp.tokensList[lp.mainIndex + 1]),
                 Tail(linearPools))

\* getLinearPoolAttrs, given the pools its own pools.get() returned. With no
\* linear pool among them pool.wrappedTokens is left as it was.
GetLinearPoolAttrs(pool, fetched) ==
    LET linearPools == LinearPoolsOf(fetched)
    IN  [pool EXCEPT
            !.hasWrappedTokens = @ \/ linearPools # <<>>,
            !.wrappedTokens =
                WrappedTokensAfter(@, pool.tokensList, linearPools),
            !.hasLinearMaps = TRUE,
            !.linearPoolTokensMap = LinearPoolTokensMap(EmptyMap, linearPools),
            !.linearPoolToMainTokenMap =
                LinearPoolToMainTokenMap(EmptyMap, linearPools)]


(***************************************************************************)
(* BigNumber values (bnum): a finite decimal n / 10^e, Infinity or NaN.    *)
(* toString() writes a finite value without trailing zeros, and bnum reads *)
(* that string back, so a finite value is kept in that form.               *)
(***************************************************************************)
RECURSIVE Pow10(_)
Pow10(e) == IF e = 0 THEN 1 ELSE 10 * Pow10(e - 1)

RECURSIVE Normal(_, _)
Normal(n, e) ==
    IF e > 0 /\ n % 10 = 0 THEN Normal(n \div 10, e - 1)
    ELSE [k |-> "num", n |-> n, e |-> e]

BnNaN == [k |-> "nan", n |-> 0, e |-> 0]
BnInfinity == [k |-> "inf", n |-> 0, e |-> 0]

\* bnum(value) of a non-negative whole number
Bnum(v) == Normal(v, 0)

\* x.div(y) for finite x, y >= 0: the quotient rounded half up to
\* DecimalPlaces decimals; x / 0 is Infinity and 0 / 0 is NaN
BnDiv(x, y) ==
    IF y.n = 0 THEN (IF x.n = 0 THEN BnNaN ELSE BnInfinity)
    ELSE LET num == x.n * Pow10(DecimalPlaces + y.e)
             den == y.n * Pow10(x.e)
         IN  Normal((2 * num + den) \div (2 * den), DecimalPlaces)

\* x.times(y): exact; NaN * y and Infinity * 0 are NaN
BnTimes(x, y) ==
    CASE x.k = "nan" \/ y.k = "nan" -> BnNaN
      [] x.k = "inf" -> IF y.n = 0 THEN BnNaN ELSE BnInfinity
      [] y.k = "inf" -> IF x.n = 0 THEN BnNaN ELSE BnInfinity
      [] OTHER -> Normal(x.n * y.n, x.e + y.e)

\* x.plus(y) for x, y >= 0: exact
BnPlus(x, y) ==
    CASE x.k = "nan" \/ y.k = "nan" -> BnNaN
      [] x.k = "inf" \/ y.k = "inf" -> BnInfinity
      [] OTHER ->
            LET e == IF x.e >= y.e THEN x.e ELSE y.e
            IN  Normal(x.n * Pow10(e - x.e) + y.n * Pow10(e - y.e), e)

\* poolSharesMap[id]?.balance ?? 0, poolSharesMap being keyBy(poolShares, ...):
\* the balance of the last share record of the pool, 0 when there is none
BalanceOf(shares, id) ==
    LET is == {k \in 1..Len(shares) : shares[k].poolId = id}
    IN  IF is = {} THEN 0
        ELSE shares[CHOOSE k \in is : \A j \in is : j <= k].balance

\* the shares field of one decorated pool
SharesOf(pool, shares) ==
    BnTimes(BnDiv(Bnum(pool.totalLiquidity), Bnum(pool.totalShares)),
            Bnum(BalanceOf(shares, pool.id)))

\* poolsWithShares: {...pool, shares}
PoolsWithShares(decorated, shares) ==
    [k \in 1..Len(decorated) |->
        [id |-> decorated[k].id,
         totalLiquidity |-> decorated[k].totalLiquidity,
         totalShares |-> decorated[k].totalShares,
         shares |-> SharesOf(decorated[k], shares)]]

\* .map(pool => pool.shares).reduce((total, shares) => total.plus(shares), bnum(0))
RECURSIVE TotalInvested(_, _)
TotalInvested(total, withShares) ==
    IF withShares = <<>> THEN total
    ELSE TotalInvested(BnPlus(total, Head(withShares).shares), Tail(withShares))


(***************************************************************************)
(* The data the subgraph holds.                                            *)
(***************************************************************************)
TokenH == <<"token", 0>>

\* a pool as pools.get() returns it; wrappedTokens and the two linear-pool
\* maps are not there yet
Pool(id, poolType, tokensList, linearPools, mainIndex, wrappedIndex, totalLiquidity, totalShares) ==
    [id |-> id,
     address |-> Addr(PoolH(id), "lower"),
     poolType |-> poolType,
     tokensList |-> tokensList,
     tokens |-> [k \in 1..Len(tokensList) |->
                    [address |-> tokensList[k], decimals |-> 18]],
     linearPools |-> linearPools,
     mainIndex |-> mainIndex,
     wrappedIndex |-> wrappedIndex,
     totalLiquidity |-> totalLiquidity,
     totalShares |-> totalShares,
     hasWrappedTokens |-> FALSE,
     wrappedTokens |-> EmptyMap,
     hasLinearMaps |-> FALSE,
     linearPoolTokensMap |-> EmptyMap,
     linearPoolToMainTokenMap |-> EmptyMap]

\* a Linear pool: its main token, its wrapped token and its own BPT, the
\* wrapped token at wrappedIndex
LinearPool(id, wrappedIndex) ==
    LET main == Addr(<<"main", id>>, "lower")
        wrapped == Addr(<<"wrapped", id>>, "lower")
        own == Addr(PoolH(id), "lower")
    IN  Pool(id, "Linear",
             IF wrappedIndex = 0 THEN <<wrapped, main, own>> ELSE <<main, wrapped, own>>,
             FALSE, 1 - wrappedIndex, wrappedIndex, 1, 1)

ParentId == NumLinear + 1

\* the addresses a parent pool's token list may hold: the Linear pools' and
\* its own, in either letter case, and a plain token
ParentTokens ==
    {Addr(PoolH(id), c) : id \in 1..ParentId, c \in Cases}
    \cup {Addr(TokenH, "lower")}

RECURSIVE TokenLists(_)
TokenLists(n) ==
    IF n = 0 THEN {<<>>}
    ELSE LET shorter == TokenLists(n - 1)
         IN  shorter \cup
             {Append(l, a) : l \in {x \in shorter : Len(x) = n - 1},
                             a \in ParentTokens}

\* the Linear pools and then the parent pool
DecorWorlds ==
    {[k \in 1..ParentId |->
         IF k <= NumLinear THEN LinearPool(k, w)
         ELSE Pool(ParentId, poolType, tokensList, linearPools, 0, 0, 1, 1)] :
       w \in {0, 1},
       poolType \in {"StablePhantom", "Weighted"},
       linearPools \in BOOLEAN,
       tokensList \in {l \in TokenLists(MaxTokensList) : Distinct(l)}}

\* a pool share of the user: the pool and the balance
Share(poolId, balance) == [poolId |-> poolId, balance |-> balance]

\* a Linear pool, a StablePhantom pool over it and a Weighted pool, the last
\* two with the given totalShares
ThreePools(phantomShares, weightedShares) ==
    <<LinearPool(1, 1),
      Pool(2, "StablePhantom",
           <<Addr(PoolH(1), "lower"), Addr(PoolH(2), "lower")>>,
           TRUE, 0, 0, 1, phantomShares),
      Pool(3, "Weighted", <<Addr(TokenH, "lower")>>, FALSE, 0, 0, 1, weightedShares)>>

ShareWorlds ==
    {ThreePools(s1, s2) : s1 \in 0..MaxAmount, s2 \in 0..MaxAmount}

\* at most one share per pool, for the pools 2 to n
RECURSIVE ShareLists(_)
ShareLists(n) ==
    IF n = 1 THEN {<<>>}
    ELSE LET shorter == ShareLists(n - 1)
         IN  shorter \cup
             {Append(l, Share(n, b)) : l \in shorter, b \in 0..MaxAmount}

(***************************************************************************)
(* The query.                                                              *)
(***************************************************************************)
\* const enabled = computed(...)
Enabled(walletReady, acct, loadingLists) ==
    walletReady /\ acct # "null" /\ ~loadingLists

\* queryOptions = reactive({ enabled, ...options }): options.enabled, when
\* the caller passes one, replaces the computed enabled
QueryEnabled(opt, walletReady, acct, loadingLists) ==
    IF opt = "unset" THEN Enabled(walletReady, acct, loadingLists)
    ELSE opt = "true"

Running ==
    pc \in {"poolShares", "pools", "loop", "linearPools", "injectTokens",
            "forChange", "decorate"}

NoResult == [pools |-> <<>>, tokens |-> <<>>, totalInvestedAmount |-> BnNaN,
             returned |-> FALSE]

HistInit == [runs |-> 0, rises |-> 0, startedDisabled |-> FALSE,
             injectedEarly |-> FALSE, decorateAt |-> "notIssued"]

\* useQuery runs queryFn. Its first statement reads account.value.toLowerCase():
\* with a null account that is a TypeError and the execution is over; otherwise
\* poolShares.get is requested.
StartRun(walletReady, acct, loadingLists) ==
    /\ pc' = IF acct = "null" THEN "error" ELSE "poolShares"
    /\ poolShares' = <<>>
    /\ pools' = <<>>
    /\ poolRefs' = <<>>
    /\ userPools' = <<>>
    /\ loopI' = 0
    /\ tokens' = <<>>
    /\ result' = NoResult

\* what useQuery does when the options or the key change: an execution starts
\* when the query is enabled and either was not before or has a new key
\* (the account is part of the key). An execution in flight for the same key
\* is joined, not repeated; one for the key of a null account fails at once
\* beside the execution in flight.
React(walletReady, acct, loadingLists) ==
    LET before == QueryEnabled(optEnabled, isWalletReady, account, loadingTokenLists)
        after == QueryEnabled(optEnabled, walletReady, acct, loadingLists)
        rise == /\ ~Enabled(isWalletReady, account, loadingTokenLists)
                /\ Enabled(walletReady, acct, loadingLists)
        fetch == mounted /\ after /\ (~before \/ acct # account)
        starts == fetch /\ (~Running \/ acct = "null")
    IN  /\ hist.runs < MaxRuns /\ hist.rises < MaxRuns
        /\ hist' = [hist EXCEPT
              !.rises = IF mounted /\ rise THEN @ + 1 ELSE @,
              !.runs = IF starts THEN @ + 1 ELSE @,
              !.startedDisabled =
                  @ \/ (starts /\ ~Enabled(walletReady, acct, loadingLists))]
        /\ IF fetch /\ ~Running
           THEN StartRun(walletReady, acct, loadingLists)
           ELSE UNCHANGED fnVars

\* useUserPoolsQuery(options) is called: useQuery(queryKey, queryFn, queryOptions)
Mount ==
    /\ ~mounted
    /\ mounted' = TRUE
    /\ LET en == Enabled(isWalletReady, account, loadingTokenLists)
           starts == QueryEnabled(optEnabled, isWalletReady, account, loadingTokenLists)
       IN  /\ hist' = [hist EXCEPT
                 !.rises = IF en THEN @ + 1 ELSE @,
                 !.runs = IF starts THEN @ + 1 ELSE @,
                 !.startedDisabled = @ \/ (starts /\ ~en)]
           /\ IF starts
              THEN StartRun(isWalletReady, account, loadingTokenLists)
              ELSE UNCHANGED fnVars
    /\ UNCHANGED <<walletVars, optEnabled, sgShares, sgPools, loadVars>>
    /\ UNCHANGED <<alertVars, svcVars>>

SetWalletReady(b) ==
    /\ b # isWalletReady
    /\ isWalletReady' = b
    /\ React(b, account, loadingTokenLists)
    /\ UNCHANGED <<account, loadingTokenLists, optEnabled, mounted, sgShares,
                   sgPools, loadVars>>
    /\ UNCHANGED <<alertVars, svcVars>>

SetAccount(a) ==
    /\ a # account
    /\ account' = a
    /\ React(isWalletReady, a, loadingTokenLists)
    /\ UNCHANGED <<isWalletReady, loadingTokenLists, optEnabled, mounted,
                   sgShares, sgPools, loadVars>>
    /\ UNCHANGED <<alertVars, svcVars>>

SetLoadingTokenLists(b) ==
    /\ b # loadingTokenLists
    /\ loadingTokenLists' = b
    /\ React(isWalletReady, account, b)
    /\ UNCHANGED <<isWalletReady, account, optEnabled, mounted, sgShares,
                   sgPools, loadVars>>
    /\ UNCHANGED <<alertVars, svcVars>>

FnFrame ==
    /\ UNCHANGED <<walletVars, optEnabled, mounted, sgShares, sgPools>>
    /\ UNCHANGED <<alertVars, svcVars>>

\* poolShares.get answers; pools.get is requested
FetchPoolShares ==
    /\ pc = "poolShares"
    /\ poolShares' = sgShares
    /\ pc' = "pools"
    /\ UNCHANGED <<pools, poolRefs, userPools, loopI, tokens, result, loadVars, hist>>
    /\ FnFrame

\* pools.filter(pool => poolSharesIds.includes(pool.id)): the elements of
\* userPools are the objects of pools, named here by their position
UserPoolsOf(ps, shares) ==
    LET ids == {shares[k].poolId : k \in 1..Len(shares)}
        F[n \in 0..Len(ps)] ==
            IF n = 0 THEN <<>>
            ELSE IF ps[n].id \in ids THEN Append(F[n - 1], n) ELSE F[n - 1]
    IN  F[Len(ps)]

\* pools.get answers; the loop begins
FetchPools ==
    /\ pc = "pools"
    /\ pools' = sgPools
    /\ poolRefs' = [k \in 1..Len(sgPools) |-> k]
    /\ userPools' = UserPoolsOf(sgPools, poolShares)
    /\ loopI' = 0
    /\ pc' = "loop"
    /\ UNCHANGED <<poolShares, tokens, result, loadVars, hist>>
    /\ FnFrame

\* a variant of AssignInPlace that leaves the object it is given as it is and
\* returns a new object with the new fields
ComposeNew(objects, ref, value) ==
    [objects |-> Append(objects, value), ref |-> Len(objects) + 1]

\* pool.tokensList = ..., pool.wrappedTokens[index] = ...,
\* pool.linearPoolTokensMap = ..., pool.linearPoolToMainTokenMap = ... and
\* return pool: the fields of the object that was passed are assigned and
\* that same object is returned
AssignInPlace(objects, ref, value) ==
    [objects |-> [objects EXCEPT ![ref] = value], ref |-> ref]

\* one round of the loop up to its await: the pre-minted BPT is removed from a
\* StablePhantom pool; a pool with linearPools waits for getLinearPoolAttrs
LoopStep ==
    /\ pc = "loop"
    /\ loopI < Len(poolRefs)
    /\ LET ref == poolRefs[loopI + 1]
           r == IF IsStablePhantom(pools[ref].poolType)
                THEN AssignInPlace(pools, ref, RemovePreMintedBPT(pools[ref]))
                ELSE [objects |-> pools, ref |-> ref]
       IN  /\ pools' = r.objects
           /\ poolRefs' = [poolRefs EXCEPT ![loopI + 1] = r.ref]
           /\ IF r.objects[r.ref].linearPools
              THEN pc' = "linearPools" /\ loopI' = loopI
              ELSE pc' = "loop" /\ loopI' = loopI + 1
    /\ UNCHANGED <<poolShares, userPools, tokens, result, loadVars, hist>>
    /\ FnFrame

\* the pools.get of getLinearPoolAttrs answers and the round ends
LinearAttrs ==
    /\ pc = "linearPools"
    /\ LET ref == poolRefs[loopI + 1]
           r == AssignInPlace(pools, ref, GetLinearPoolAttrs(pools[ref], sgPools))
       IN  /\ pools' = r.objects
           /\ poolRefs' = [poolRefs EXCEPT ![loopI + 1] = r.ref]
    /\ loopI' = loopI + 1
    /\ pc' = "loop"
    /\ UNCHANGED <<poolShares, userPools, tokens, result, loadVars, hist>>
    /\ FnFrame

\* the objects the elements of the array pools refer to
PoolsArray == [k \in 1..Len(poolRefs) |-> pools[poolRefs[k]]]

\* the elements of an array at the indices from 0 on, in index order
RECURSIVE Elements(_, _)
Elements(array, from) ==
    IF \A k \in DOMAIN array : k < from THEN <<>>
    ELSE (IF from \in DOMAIN array THEN <<array[from]>> ELSE <<>>)
         \o Elements(array, from + 1)

\* lpTokensFor(pool)
LpTokensFor(pool) ==
    IF IsStablePhantom(pool.poolType) THEN Elements(pool.wrappedTokens, 0)
    ELSE <<>>

\* flatten(pools.map(pool => [...tokensList, ...lpTokensFor(pool), addressFor(id)]))
RECURSIVE TokensOf(_)
TokensOf(ps) ==
    IF ps = <<>> THEN <<>>
    ELSE Head(ps).tokensList \o LpTokensFor(Head(ps))
         \o <<AddressFor(Head(ps).id)>> \o TokensOf(Tail(ps))

\* the loop is over: tokens is built and injectTokens(tokens) is called
InjectCall ==
    /\ pc = "loop"
    /\ loopI >= Len(poolRefs)
    /\ tokens' = TokensOf(PoolsArray)
    /\ pc' = "injectTokens"
    /\ hist' = [hist EXCEPT !.injectedEarly = @ \/ loopI < Len(sgPools)]
    /\ UNCHANGED <<poolShares, pools, poolRefs, userPools, loopI, result, loadVars>>
    /\ FnFrame

\* injectTokens resolves. It has set off the loading of prices for the tokens
\* that were new, if any: the loading is another task, which may have begun
\* (dynamicDataLoading is true) or not yet
InjectReturn(load) ==
    /\ pc = "injectTokens"
    /\ pc' = "forChange"
    /\ CASE load = "none" -> UNCHANGED loadVars
         [] load = "requested" ->
               loadState' = "requested" /\ UNCHANGED dynamicDataLoading
         [] load = "loading" ->
               loadState' = "loading" /\ dynamicDataLoading' = TRUE
    /\ UNCHANGED <<poolShares, pools, poolRefs, userPools, loopI, tokens, result, hist>>
    /\ FnFrame

\* forChange(dynamicDataLoading, false) finds the flag true and sleeps
ForChangeWait ==
    /\ pc = "forChange"
    /\ dynamicDataLoading
    /\ UNCHANGED <<fnVars, loadVars, hist>>
    /\ FnFrame

\* forChange finds the flag false and resolves; pools.decorate(userPools) is
\* requested
ForChangePass ==
    /\ pc = "forChange"
    /\ ~dynamicDataLoading
    /\ pc' = "decorate"
    /\ hist' = [hist EXCEPT !.decorateAt = loadState]
    /\ UNCHANGED <<poolShares, pools, poolRefs, userPools, loopI, tokens, result, loadVars>>
    /\ FnFrame

\* pools.decorate(userPools): the pools with totalLiquidity valued anew
Decorated(liquidity) ==
    [k \in 1..Len(userPools) |->
        [pools[userPools[k]] EXCEPT !.totalLiquidity = liquidity[k]]]

\* pools.decorate answers; the shares and their sum are computed and queryFn
\* returns
DecorateReturn(liquidity) ==
    /\ pc = "decorate"
    /\ pc' = "done"
    /\ LET withShares == PoolsWithShares(Decorated(liquidity), poolShares)
       IN  result' = [pools |-> withShares,
                      tokens |-> tokens,
                      totalInvestedAmount |-> TotalInvested(Bnum(0), withShares),
                      returned |-> TRUE]
    /\ UNCHANGED <<poolShares, pools, poolRefs, userPools, loopI, tokens, loadVars, hist>>
    /\ FnFrame

\* the loading of prices begins
LoaderStart ==
    /\ loadState = "requested"
    /\ loadState' = "loading"
    /\ dynamicDataLoading' = TRUE
    /\ UNCHANGED <<fnVars, hist>>
    /\ FnFrame

\* the loading of prices is over
LoaderFinish ==
    /\ loadState = "loading"
    /\ loadState' = "loaded"
    /\ dynamicDataLoading' = FALSE
    /\ UNCHANGED <<fnVars, hist>>
    /\ FnFrame

InjectReturnStep == \E load \in {"none", "requested", "loading"} : InjectReturn(load)

DecorateReturnStep ==
    \E liquidity \in [1..Len(userPools) -> 0..MaxAmount] : DecorateReturn(liquidity)

FnNext ==
    \/ Mount
    \/ FetchPoolShares
    \/ FetchPools
    \/ LoopStep
    \/ LinearAttrs
    \/ InjectCall
    \/ InjectReturnStep
    \/ ForChangeWait
    \/ ForChangePass
    \/ DecorateReturnStep
    \/ LoaderStart
    \/ LoaderFinish

SetWalletReadyStep == \E b \in BOOLEAN : SetWalletReady(b)

SetAccountStep == \E a \in {"null", "0xUser"} : SetAccount(a)

SetLoadingTokenListsStep == \E b \in BOOLEAN : SetLoadingTokenLists(b)

QueryNext ==
    \/ FnNext
    \/ SetWalletReadyStep
    \/ SetAccountStep
    \/ SetLoadingTokenListsStep

\* the query before useUserPoolsQuery is called
QueryIdle ==
    /\ mounted = FALSE
    /\ pc = "idle"
    /\ poolShares = <<>>
    /\ pools = <<>>
    /\ poolRefs = <<>>
    /\ userPools = <<>>
    /\ loopI = 0
    /\ tokens = <<>>
    /\ result = NoResult
    /\ loadState = "idle"
    /\ dynamicDataLoading = FALSE
    /\ hist = HistInit

WalletConnected ==
    /\ isWalletReady = TRUE
    /\ account = "0xUser"
    /\ loadingTokenLists = FALSE
    /\ optEnabled = "unset"

OneShareEach ==
    /\ sgPools = ThreePools(1, 1)
    /\ sgShares = <<Share(2, 1), Share(3, 1)>>

\* any wallet state and any options.enabled
QueryInit ==
    /\ QueryIdle
    /\ isWalletReady \in BOOLEAN
    /\ account \in {"null", "0xUser"}
    /\ loadingTokenLists \in BOOLEAN
    /\ optEnabled \in {"unset", "true", "false"}
    /\ OneShareEach

\* a connected wallet and any pool to decorate; the user holds the parent pool
DecorInit ==
    /\ QueryIdle
    /\ WalletConnected
    /\ sgPools \in DecorWorlds
    /\ sgShares = <<Share(ParentId, 1)>>

\* a connected wallet, any totalShares and any pool shares, one of them in a
\* pool that pools.get() does not return
SharesInit ==
    /\ QueryIdle
    /\ WalletConnected
    /\ sgPools \in ShareWorlds
    /\ sgShares \in ShareLists(4)

(***************************************************************************)
(*                    Properties of the alert registry                     *)
(***************************************************************************)
EntryOf(state, id) == state[IndexOfKey(state, id)]

Priorities(seq) == [i \in 1..Len(seq) |-> seq[i].priority]

\* C5: alerts holds exactly the alerts of the registry, in non-increasing
\* priority (HIGH before MEDIUM before LOW); currentAlert is the first of
\* alerts, an alert of maximal priority, or null when the registry is empty;
\* alerts added as LOW, HIGH, MEDIUM are listed HIGH, MEDIUM, LOW and the
\* HIGH one is current.
C5_AlertsOrdered ==
    /\ Len(alerts) = Len(alertsState)
    /\ {alerts[i] : i \in 1..Len(alerts)} =
       {alertsState[i] : i \in 1..Len(alertsState)}
    /\ \A i, j \in 1..Len(alerts) :
          i < j => alerts[i].priority >= alerts[j].priority
    /\ IF alertsState = <<>>
       THEN currentAlert = Null
       ELSE /\ currentAlert = alerts[1]
            /\ currentAlert.id \in Keys(alertsState)
            /\ \A i \in 1..Len(alertsState) :
                  currentAlert.priority >= alertsState[i].priority
    /\ Priorities(alertsState) = <<LOW, HIGH, MEDIUM>> =>
          /\ Priorities(alerts) = <<HIGH, MEDIUM, LOW>>
          /\ currentAlert = alertsState[2]

\* the registry was cleared and then LOW, HIGH, MEDIUM were added in that order
C5_Witness ==
    /\ lastOp.op = "addAlert"
    /\ Priorities(alertsState) = <<LOW, HIGH, MEDIUM>>

\* C6: addAlert(a) with a.id already registered replaces the entry: the
\* registry then holds under a.id exactly the fields of a, priority defaulted
\* to LOW when a has none, and no field of the old entry; the number of
\* entries and every other entry are unchanged.
C6_UpsertReplaces ==
    [][\A a \in AlertInputs :
          (lastOp'.op = "addAlert" /\ a.id = lastOp'.id /\ AddAlert(a)
              /\ a.id \in Keys(alertsState)) =>
             /\ Len(alertsState') = Len(alertsState)
             /\ Keys(alertsState') = Keys(alertsState)
             /\ \A id \in Keys(alertsState) \ {a.id} :
                   EntryOf(alertsState', id) = EntryOf(alertsState, id)
             /\ LET e == EntryOf(alertsState', a.id)
                IN  /\ DOMAIN e = (DOMAIN a) \cup {"priority"}
                    /\ \A k \in (DOMAIN a) \ {"priority"} : e[k] = a[k]
                    /\ e.priority = IF "priority" \in DOMAIN a
                                    THEN a.priority ELSE LOW]_vars

\* the seeded alert, which has fields the inputs lack, was replaced by an
\* addAlert while another alert was registered
C6_Witness ==
    /\ lastOp = [op |-> "addAlert", id |-> "v2-beta", existed |-> TRUE]
    /\ Len(alertsState) >= 2
    /\ ~Has(EntryOf(alertsState, "v2-beta"), "persistent")

\* C10: an alert in the registry, the seeded 'v2-beta' included, stays there
\* unchanged until removeAlert is called with its id, removeAllAlerts is
\* called, or addAlert replaces it under its own id; removeAlert(id) removes
\* only the entry with that id and removeAllAlerts empties the registry.
C10_RemovalOnlyByCaller ==
    [][/\ \A id \in Keys(alertsState) :
             \/ /\ id \in Keys(alertsState')
                /\ \/ EntryOf(alertsState', id) = EntryOf(alertsState, id)
                   \/ lastOp'.op = "addAlert" /\ lastOp'.id = id
             \/ /\ id \notin Keys(alertsState')
                /\ \/ lastOp'.op = "removeAlert" /\ lastOp'.id = id
                   \/ lastOp'.op = "removeAllAlerts"
       /\ lastOp'.op = "removeAlert" =>
             Keys(alertsState') = Keys(alertsState) \ {lastOp'.id}
       /\ lastOp'.op = "removeAllAlerts" => alertsState' = <<>>]_vars

\* another alert was removed and the seeded alert is still the first entry
C10_Witness ==
    /\ lastOp.op = "removeAlert" /\ lastOp.existed /\ lastOp.id # "v2-beta"
    /\ Len(alertsState) >= 2
    /\ alertsState[1] = SeededAlert


(***************************************************************************)
(*                   Properties of the backend client                      *)
(***************************************************************************)
\* the price series the service returned for a requested token, empty when it
\* returned none
SeriesFor(tokenPrices, address) ==
    LET is == {i \in 1..Len(tokenPrices) : tokenPrices[i].address.h = address.h}
    IN  IF is = {} THEN <<>> ELSE tokenPrices[CHOOSE i \in is : TRUE].prices

HasEntry(series, t) == \E i \in 1..Len(series) : series[i].timestamp = t

EntryPrice(series, t) ==
    series[CHOOSE i \in 1..Len(series) : series[i].timestamp = t].price

\* C7: getHistoricalTokenPrices(addresses) raises no error and returns one row
\* per timestamp of the first token's series, each row holding one price per
\* requested address in request order, 0 where a token has no entry at that
\* timestamp, a token with no series at all included.
C7_HistoricalAligned ==
    (/\ svcPc = "done"
     /\ svcCall.method = "getHistoricalTokenPrices"
     /\ svcResp.kind = "full") =>
        LET addresses == svcCall.addresses
            first == SeriesFor(svcResp.tokenPrices, addresses[1])
        IN  /\ svcOutcome.kind = "return"
            /\ DOMAIN svcOutcome.rows = {first[i].timestamp : i \in 1..Len(first)}
            /\ \A t \in DOMAIN svcOutcome.rows :
                  /\ DOMAIN svcOutcome.rows[t] = 1..Len(addresses)
                  /\ \A k \in 1..Len(addresses) :
                        LET series == SeriesFor(svcResp.tokenPrices, addresses[k])
                        IN  svcOutcome.rows[t][k] =
                               IF HasEntry(series, t) THEN EntryPrice(series, t) ELSE 0

\* the part of C7 that the code keeps: when the service returned a series for
\* every requested token, the rows are aligned as C7 says
C7_AlignedWhenAllSeriesReturned ==
    (/\ svcPc = "done"
     /\ svcCall.method = "getHistoricalTokenPrices"
     /\ svcResp.kind = "full"
     /\ Len(svcResp.tokenPrices) = Len(svcCall.addresses)) => C7_HistoricalAligned

\* the transport answered and the answer is not the expected payload
TransportFailed == svcResp.kind \in {"reject", "noEnvelope"}

ParseFailed ==
    /\ svcResp.kind \in {"nullData", "missingField"}
    \* a null beetsGetUserDataForFarm is an answer the method's type allows
    /\ ~(svcCall.method = "getUserDataForFarm" /\ svcResp.kind = "missingField")

AfterLoop ==
    pc \in {"injectTokens", "forChange", "decorate", "done"}

\* the same address, whatever the letter case
SameAddress(a, b) == ToLowerCase(a) = ToLowerCase(b)

\* C1: queryFn never runs while the wallet is not ready, the account is null
\* or the token lists are loading, whatever options the caller passed; no
\* execution starts in such a state, and there are no more executions than
\* times the enablement condition became true.
C1_RunsOnlyWhenEnabled ==
    /\ Running => Enabled(isWalletReady, account, loadingTokenLists)
    /\ ~hist.startedDisabled
    /\ hist.runs <= hist.rises

\* the k-th term of the sum: (totalLiquidity / totalShares) * userBalance
InvestedTerm(k) ==
    LET pool == result.pools[k]
    IN  BnTimes(BnDiv(Bnum(pool.totalLiquidity), Bnum(pool.totalShares)),
                Bnum(BalanceOf(poolShares, pool.id)))

\* the sum of the terms from the k-th on
RECURSIVE InvestedFrom(_)
InvestedFrom(k) ==
    IF k > Len(result.pools) THEN Bnum(0)
    ELSE BnPlus(InvestedTerm(k), InvestedFrom(k + 1))

\* C2: in every result of queryFn each pool's shares is (totalLiquidity /
\* totalShares) * userBalance, totalInvestedAmount is the sum of them, and,
\* the inputs being non-negative, the sum is a non-negative number.
C2_TotalInvestedIsNonNegativeSum ==
    result.returned =>
        /\ \A k \in 1..Len(result.pools) : result.pools[k].shares = InvestedTerm(k)
        /\ result.totalInvestedAmount = InvestedFrom(1)
        /\ result.totalInvestedAmount.k = "num"
        /\ result.totalInvestedAmount.n >= 0

\* C3: after the loop over the pools no StablePhantom pool's tokensList
\* holds the pool's own address, compared without regard to letter case.
C3_NoOwnAddressInTokensList ==
    AfterLoop =>
        \A p \in 1..Len(pools) :
            IsStablePhantom(pools[p].poolType) =>
                \A k \in 1..Len(pools[p].tokensList) :
                    ~SameAddress(pools[p].tokensList[k], AddressFor(pools[p].id))

\* the positions, from 0 on, at which a token list holds an address
PositionsOf(list, a) == {k - 1 : k \in {j \in 1..Len(list) : list[j] = a}}

\* the pools that went through getLinearPoolAttrs
WithLinearAttrs == {p \in 1..Len(pools) : pools[p].hasLinearMaps}

\* the Linear pools the subgraph holds
LinearPools == {q \in 1..Len(sgPools) : sgPools[q].poolType = "Linear"}

\* C4: after getLinearPoolAttrs(pool), for every Linear pool whose address is
\* in pool.tokensList, wrappedTokens at the first position of that address is
\* the checksum address of the Linear pool's wrapped token; no other position
\* of the token list has an entry in wrappedTokens, so a Linear pool whose
\* address is not in the list changes none, and nothing is thrown.
C4_WrappedTokensInjected ==
    /\ pc # "error"
    /\ \A p \in WithLinearAttrs :
        LET pool == pools[p]
            at(q) == PositionsOf(pool.tokensList, sgPools[q].address)
            first(q) == CHOOSE k \in at(q) : \A j \in at(q) : k <= j
            present == {q \in LinearPools : at(q) # {}}
        IN  /\ \A q \in present :
                  /\ first(q) \in DOMAIN pool.wrappedTokens
                  /\ pool.wrappedTokens[first(q)] =
                        Addr(sgPools[q].tokensList[sgPools[q].wrappedIndex + 1].h,
                             "checksum")
            /\ \A k \in 0..(Len(pool.tokensList) - 1) :
                  k \in DOMAIN pool.wrappedTokens =>
                      \E q \in present : k = first(q)

\* C4, witness: getLinearPoolAttrs has run on a pool whose tokensList holds
\* the address of one Linear pool, whose wrapped token is in wrappedTokens,
\* and not that of another, which was skipped
C4_Witness ==
    \E p \in WithLinearAttrs :
        /\ \E q \in LinearPools :
              /\ PositionsOf(pools[p].tokensList, sgPools[q].address) # {}
              /\ \E k \in DOMAIN pools[p].wrappedTokens : k >= 0
        /\ \E q \in LinearPools :
              /\ PositionsOf(pools[p].tokensList, sgPools[q].address) = {}
              /\ -1 \in DOMAIN pools[p].wrappedTokens

\* C9: injectTokens is called only when every pool has been through the loop,
\* and pools.decorate is requested only when the loading of prices that
\* injectTokens set off is over, not while it is still to begin or going on.
C9_DecorateAfterPricesLoaded ==
    /\ ~hist.injectedEarly
    /\ AfterLoop => loopI = Len(sgPools) /\ Len(pools) = Len(sgPools)
    /\ hist.decorateAt \in {"notIssued", "idle", "loaded"}

\* the four fields the pipeline writes
DecorationOf(pool) ==
    <<pool.tokensList, pool.hasWrappedTokens, pool.wrappedTokens,
      pool.hasLinearMaps, pool.linearPoolTokensMap, pool.linearPoolToMainTokenMap>>

\* the pipeline has something to do on the k-th pool received
InPipeline(k) ==
    IsStablePhantom(sgPools[k].poolType) \/ sgPools[k].linearPools

\* what the pipeline makes of a pool as it was received
Enriched(pool) ==
    LET stripped == IF IsStablePhantom(pool.poolType)
                    THEN RemovePreMintedBPT(pool) ELSE pool
    IN  IF stripped.linearPools THEN GetLinearPoolAttrs(stripped, sgPools)
        ELSE stripped

\* C11: the pipeline has no side effect: each pool object received from
\* pools.get() keeps the tokensList, wrappedTokens, linearPoolTokensMap and
\* linearPoolToMainTokenMap it came with, and the enriched pool that the
\* pipeline returns is another object.
C11_InputsUnchanged ==
    \A k \in 1..Len(poolRefs) :
        /\ DecorationOf(pools[k]) = DecorationOf(sgPools[k])
        /\ (k <= loopI /\ InPipeline(k)) => poolRefs[k] # k

\* C11 as amended: the pipeline assigns to the pool object it is given and
\* returns that same object. No pool object is made: every element of the
\* array is still the object that was received, after its round it is that
\* object enriched, before its round it is as received, and every element of
\* userPools, taken before the loop, is an element of the array.
C11_DecoratedInPlace ==
    /\ pools # <<>> => Len(pools) = Len(sgPools)
    /\ \A k \in 1..Len(poolRefs) :
          /\ poolRefs[k] = k
          /\ k <= loopI => pools[k] = Enriched(sgPools[k])
          /\ k > loopI + 1 => pools[k] = sgPools[k]
          /\ ~InPipeline(k) => pools[k] = sgPools[k]
    /\ \A j \in 1..Len(userPools) :
          \E k \in 1..Len(poolRefs) : poolRefs[k] = userPools[j]

\* C11, witness: the loop is over and a pool of the user, as the object now
\* is, has another tokensList than it was received with, a wrapped token and
\* the linear-pool maps
C11_Witness ==
    /\ AfterLoop
    /\ \E j \in 1..Len(userPools) :
          LET pool == pools[userPools[j]]
          IN  /\ pool.tokensList # sgPools[userPools[j]].tokensList
              /\ pool.hasLinearMaps
              /\ \E k \in DOMAIN pool.wrappedTokens : k >= 0

Init == AlertsInit /\ SvcInit /\ QueryIdle /\ WalletConnected /\ OneShareEach

SpecAlerts == Init /\ [][AlertsNext]_vars

SpecService == Init /\ [][SvcNext]_vars

InitQuery == AlertsInit /\ SvcInit /\ QueryInit

InitDecor == AlertsInit /\ SvcInit /\ DecorInit

InitShares == AlertsInit /\ SvcInit /\ SharesInit

SpecQuery == InitQuery /\ [][QueryNext]_vars

SpecDecor == InitDecor /\ [][FnNext]_vars

SpecShares == InitShares /\ [][FnNext]_vars

====
